---- MODULE Spec2Model ----
(***************************************************************************)
(* A model of the diabetes data pipeline: the Dexcom Clarity transformer   *)
(* (file_transformer.py, decom_clarity_transformer.py), the dosing         *)
(* analytics and the record insertion (analyze_diabetes_db_data.py).       *)
(*                                                                         *)
(* A DataFrame is [cols |-> sequence of column names, rows |-> sequence of *)
(* rows], a row being a function from the column names to cells.  A cell   *)
(* is a record [t, s, n, d]:                                               *)
(*   t = "fin"  the float n/d (d > 0, lowest terms)                        *)
(*   t = "nan"  the float NaN, which is also pandas' missing value         *)
(*   t = "inf"  the float +inf (n = 1) or -inf (n = -1)                    *)
(*   t = "str"  the text s                                                 *)
(*   t = "ts"   a timestamp text "day T hh:mm", n = day*10000 + hh*100 + mm*)
(*   t = "dt"   a parsed date-time, n minutes since the epoch of the model *)
(*   t = "int"  the integer n                                              *)
(*   t = "numtxt" the text of the number n, as a CSV field holds it        *)
(***************************************************************************)
EXTENDS Integers, Sequences, FiniteSets, TLC

VARIABLES
    hours_grp_lookup_dict,  \* FileTransformer._hours_grp_lookup_dict
    file,                   \* the source file given to transform
    tdf,                    \* transform's local DataFrame df
    pc,                     \* transform's position: the next step, "done" or "error"
    df,                     \* the caller's DataFrame given to the analytics
    ret,                    \* what the last analytics call returned
    db,                     \* the rows stored in the database table
    last,                   \* the DataFrame last given to insert_records
    raised                  \* whether the last insert_records raised

vars == <<hours_grp_lookup_dict, file, tdf, pc, df, ret, db, last, raised>>

----------------------------------------------------------------------------
(* Cells and float arithmetic (numpy float64 semantics, exact rationals)   *)

Abs(x) == IF x < 0 THEN -x ELSE x

RECURSIVE GCD(_, _)
GCD(a, b) == IF b = 0 THEN a ELSE GCD(b, a % b)

NaN == [t |-> "nan", s |-> "", n |-> 0, d |-> 1]
PosInf == [t |-> "inf", s |-> "", n |-> 1, d |-> 1]
NegInf == [t |-> "inf", s |-> "", n |-> -1, d |-> 1]
Str(x) == [t |-> "str", s |-> x, n |-> 0, d |-> 1]
Ts(x) == [t |-> "ts", s |-> "", n |-> x, d |-> 1]
Dt(m) == [t |-> "dt", s |-> "", n |-> m, d |-> 1]
IntCell(i) == [t |-> "int", s |-> "", n |-> i, d |-> 1]
\* A number as the source file writes it, before it is parsed.
NumTxt(i) == [t |-> "numtxt", s |-> "", n |-> i, d |-> 1]

\* The float num/den, den # 0, in lowest terms with a positive denominator.
Fin(num, den) ==
    LET g == GCD(Abs(num), Abs(den))
        sg == IF den < 0 THEN -1 ELSE 1
    IN [t |-> "fin", s |-> "", n |-> sg * (num \div g), d |-> Abs(den) \div g]

Num(i) == Fin(i, 1)

IsNaN(x) == x.t = "nan"
IsFin(x) == x.t = "fin"
IsInf(x) == x.t = "inf"
Sign(x) == IF x.n > 0 THEN 1 ELSE IF x.n < 0 THEN -1 ELSE 0

\* x > 0 on floats: False for NaN.
GtZero(x) == x.t \in {"fin", "inf"} /\ x.n > 0
\* x == 0 on floats.
EqZero(x) == x.t = "fin" /\ x.n = 0

FAdd(x, y) ==
    IF IsNaN(x) \/ IsNaN(y) THEN NaN
    ELSE IF IsInf(x) /\ IsInf(y) THEN (IF x.n = y.n THEN x ELSE NaN)
    ELSE IF IsInf(x) THEN x
    ELSE IF IsInf(y) THEN y
    ELSE Fin(x.n * y.d + y.n * x.d, x.d * y.d)

FNeg(x) == IF IsNaN(x) THEN NaN ELSE [x EXCEPT !.n = -x.n]

FSub(x, y) == FAdd(x, FNeg(y))

\* numpy division: x/0 is +-inf for x # 0 and NaN for x = 0; no exception.
FDiv(x, y) ==
    IF IsNaN(x) \/ IsNaN(y) THEN NaN
    ELSE IF IsInf(x) /\ IsInf(y) THEN NaN
    ELSE IF IsInf(x) THEN (IF Sign(y) < 0 THEN FNeg(x) ELSE x)
    ELSE IF IsInf(y) THEN Num(0)
    ELSE IF y.n = 0 THEN (IF x.n = 0 THEN NaN ELSE IF x.n > 0 THEN PosInf ELSE NegInf)
    ELSE Fin(x.n * y.d, x.d * y.n)

RECURSIVE FSum(_)
FSum(xs) == IF xs = <<>> THEN Num(0) ELSE FAdd(Head(xs), FSum(Tail(xs)))

\* A mean that is 0 for an empty Series.
Mean_empty_zero(xs) == IF xs = <<>> THEN Num(0) ELSE FDiv(FSum(xs), Num(Len(xs)))

\* Series.mean(): NaN for an empty Series.
Mean(xs) == IF xs = <<>> THEN NaN ELSE FDiv(FSum(xs), Num(Len(xs)))

\* Series.fillna(0) / DataFrame.fillna(0) on one cell: only NaN is replaced.
fillna(x) == IF IsNaN(x) THEN Num(0) ELSE x

----------------------------------------------------------------------------
(* DataFrames                                                              *)

Range(seq) == {seq[i] : i \in DOMAIN seq}

\* The value of F at v, with v computed once: a local variable assignment.
With(v, F(_)) == CHOOSE y \in {F(x) : x \in {v}} : TRUE

RECURSIVE SelectIdx(_, _)
\* The indices i..Len(mask) where the boolean mask holds, in order.
SelectIdx(mask, i) ==
    IF i > Len(mask) THEN <<>>
    ELSE IF mask[i] THEN <<i>> \o SelectIdx(mask, i + 1)
    ELSE SelectIdx(mask, i + 1)

\* df[mask]: the rows where the boolean mask holds, in order, same columns.
Filter(d, mask) ==
    With(SelectIdx(mask, 1), LAMBDA idx :
    [cols |-> d.cols, rows |-> [j \in 1..Len(idx) |-> d.rows[idx[j]]]])

\* df[[c1, c2, ...]]: the listed columns in the listed order.
Project(d, cs) ==
    [cols |-> cs,
     rows |-> [i \in 1..Len(d.rows) |-> [c \in Range(cs) |-> d.rows[i][c]]]]

\* df[name] = values: a new column is appended, an existing one is replaced in place.
SetColumn(d, name, values) ==
    With(Range(d.cols) \cup {name}, LAMBDA names :
    [cols |-> IF name \in Range(d.cols) THEN d.cols ELSE Append(d.cols, name),
     rows |-> [i \in 1..Len(d.rows) |->
                 [c \in names |-> IF c = name THEN values[i] ELSE d.rows[i][c]]]])

\* The column as a sequence of cells.
Column(d, name) == [i \in 1..Len(d.rows) |-> d.rows[i][name]]

EmptyFrame == [cols |-> <<>>, rows |-> <<>>]

\* What a row function leaves in place of a value when it raises.
Exc == [t |-> "raise", s |-> "", n |-> 0, d |-> 1]

\* A step's outcome: the DataFrame it returns, or an exception.
Ok(d) == [ok |-> TRUE, df |-> d]
Raise == [ok |-> FALSE, df |-> EmptyFrame]

----------------------------------------------------------------------------
(* FileTransformer (file_transformer.py)                                   *)

HourGroups == 8
HoursPerGroup == 3
HoursPerDay == 24
MinutesPerHour == 60

RECURSIVE hour_grouping_loop(_, _, _, _)
\* The nested loops of get_hour_grouping_dict: k over range(0, 8), v over
\* range(0, 3), cnt counting up; the lookup dict maps cnt to k.
hour_grouping_loop(k, v, cnt, lookup) ==
    IF k >= HourGroups THEN lookup
    ELSE IF v >= HoursPerGroup THEN hour_grouping_loop(k + 1, 0, cnt, lookup)
    ELSE hour_grouping_loop(k, v + 1, cnt + 1,
            [h \in DOMAIN lookup \cup {cnt} |-> IF h = cnt THEN k ELSE lookup[h]])

\* The loops with cnt starting at 1.
get_hour_grouping_dict_cnt1 == hour_grouping_loop(0, 0, 1, [h \in {} |-> 0])

\* _hours_grp_lookup_dict as get_hour_grouping_dict returns it.
get_hour_grouping_dict == hour_grouping_loop(0, 0, 0, [h \in {} |-> 0])

\* DecomClarityTransformer.columns()
columns ==
    <<"Index", "Timestamp (YYYY-MM-DDThh:mm:ss)", "Event Type", "Event Subtype",
      "Glucose Value (mg/dL)", "Insulin Value (u)", "Carb Value (grams)">>

\* pd.read_csv's type inference on one column: a column whose fields are all
\* numbers or empty becomes a float column, any other column keeps its texts.
read_csv(f) ==
    LET numeric(c) == \A i \in 1..Len(f.rows) : f.rows[i][c].t \in {"numtxt", "nan"}
        cell(x, c) == IF numeric(c) /\ x.t = "numtxt" THEN Num(x.n) ELSE x
    IN [cols |-> f.cols,
        rows |-> [i \in 1..Len(f.rows) |->
                    [c \in Range(f.cols) |-> cell(f.rows[i][c], c)]]]

\* FileTransformer._read_into_dataframe, which drops no row.
_read_into_dataframe_nodrop(f) == Ok(read_csv(f))

\* _read_into_dataframe whose dropna skips a column the file does not have.
_read_into_dataframe_lenient(f) ==
    LET d == read_csv(f)
    IN IF "Timestamp (YYYY-MM-DDThh:mm:ss)" \notin Range(d.cols) THEN Ok(d)
       ELSE Ok(Filter(d, [i \in 1..Len(d.rows) |-> ~IsNaN(d.rows[i]["Timestamp (YYYY-MM-DDThh:mm:ss)"])]))

\* DecomClarityTransformer._read_into_dataframe:
\* read_csv(file).dropna(subset=[timestamp]); KeyError without that column.
_read_into_dataframe(f) ==
    LET d == read_csv(f)
    IN IF "Timestamp (YYYY-MM-DDThh:mm:ss)" \notin Range(d.cols) THEN Raise
       ELSE Ok(Filter(d, [i \in 1..Len(d.rows) |-> ~IsNaN(d.rows[i]["Timestamp (YYYY-MM-DDThh:mm:ss)"])]))

\* FileTransformer._retrieve_columns
_retrieve_columns(d) ==
    Ok(Project(d, SelectSeq(columns, LAMBDA c : c \in Range(d.cols))))

\* The mapping given to df.rename in _rename_columns.
renamed(c) ==
    CASE c = "Timestamp (YYYY-MM-DDThh:mm:ss)" -> "datetime"
      [] c = "Glucose Value (mg/dL)" -> "glucose"
      [] c = "Insulin Value (u)" -> "insulin"
      [] c = "Carb Value (grams)" -> "carbs"
      [] OTHER -> c

\* DecomClarityTransformer._rename_columns
_rename_columns(d) ==
    LET old(c) == CHOOSE o \in Range(d.cols) : renamed(o) = c
    IN Ok([cols |-> [i \in 1..Len(d.cols) |-> renamed(d.cols[i])],
           rows |-> [i \in 1..Len(d.rows) |->
                       [c \in {renamed(o) : o \in Range(d.cols)} |-> d.rows[i][old(c)]]]])

\* Whether pd.to_datetime parses the cell: a timestamp text with hh < 24, mm < 60.
parseable(x) ==
    x.t = "ts" /\ ((x.n \div 100) % 100) < HoursPerDay /\ (x.n % 100) < MinutesPerHour

\* pd.to_datetime on one parseable cell.
to_datetime(x) ==
    Dt((x.n \div 10000) * HoursPerDay * MinutesPerHour
       + ((x.n \div 100) % 100) * MinutesPerHour + (x.n % 100))

\* FileTransformer._set_datetime_datatype: a no-op without the column;
\* pd.to_datetime raises on a value it cannot parse.
_set_datetime_datatype(d) ==
    IF "datetime" \notin Range(d.cols) THEN Ok(d)
    ELSE IF \E i \in 1..Len(d.rows) : ~parseable(d.rows[i]["datetime"]) THEN Raise
    ELSE Ok(SetColumn(d, "datetime",
                      [i \in 1..Len(d.rows) |-> to_datetime(d.rows[i]["datetime"])]))

\* Series.dt.hour on one date-time.
dt_hour(x) == (x.n \div MinutesPerHour) % HoursPerDay

\* self._hours_grp_lookup_dict[x]: a KeyError for a key the dict does not hold.
hours_grp_lookup(lookup, x) ==
    IF x \in DOMAIN lookup THEN IntCell(lookup[x]) ELSE Exc

\* FileTransformer._add_hr_and_hrgrp: AttributeError without a datetime
\* column, KeyError for an hour the lookup dict does not hold.
_add_hr_and_hrgrp(d, lookup) ==
    IF "datetime" \notin Range(d.cols) THEN Raise
    ELSE LET hr == [i \in 1..Len(d.rows) |-> dt_hour(d.rows[i]["datetime"])]
             grp == [i \in 1..Len(d.rows) |-> hours_grp_lookup(lookup, hr[i])]
             d1 == SetColumn(d, "hour", [i \in 1..Len(d.rows) |-> IntCell(hr[i])])
         IN IF \E i \in 1..Len(d.rows) : grp[i] = Exc THEN Raise
            ELSE Ok(SetColumn(d1, "hour_group", grp))

----------------------------------------------------------------------------
(* DecomClarityTransformer (decom_clarity_transformer.py)                  *)

GlucoseHigh == 400
GlucoseLow == 40

\* _populate_bolus_insulin that looks at the event subtype alone.
_populate_bolus_insulin_subtype_only(row) ==
    IF "Event Subtype" \notin DOMAIN row THEN Exc
    ELSE IF row["Event Subtype"] # Str("Fast-Acting") THEN Num(0)
    ELSE IF "insulin" \notin DOMAIN row THEN Exc
    ELSE row["insulin"]

\* DecomClarityTransformer._populate_bolus_insulin; `and` evaluates its second
\* operand, and the function reads row["insulin"], only when it has to, and
\* reading a column the row lacks is a KeyError.
_populate_bolus_insulin(row) ==
    IF "Event Type" \notin DOMAIN row THEN Exc
    ELSE IF row["Event Type"] # Str("Insulin") THEN Num(0)
    ELSE IF "Event Subtype" \notin DOMAIN row THEN Exc
    ELSE IF row["Event Subtype"] # Str("Fast-Acting") THEN Num(0)
    ELSE IF "insulin" \notin DOMAIN row THEN Exc
    ELSE row["insulin"]

\* DecomClarityTransformer._populate_basal_insulin
_populate_basal_insulin(row) ==
    IF "Event Type" \notin DOMAIN row THEN Exc
    ELSE IF row["Event Type"] # Str("Insulin") THEN Num(0)
    ELSE IF "Event Subtype" \notin DOMAIN row THEN Exc
    ELSE IF row["Event Subtype"] # Str("Long-Acting") THEN Num(0)
    ELSE IF "insulin" \notin DOMAIN row THEN Exc
    ELSE row["insulin"]

\* float(x) that takes any text it cannot parse for a missing value.
to_float_coerce(x) ==
    IF x.t \in {"fin", "nan", "inf"} THEN x
    ELSE IF x.t = "numtxt" THEN Num(x.n)
    ELSE NaN

\* float(x) of _transform_glucose: a float stays, the text of a number is
\* parsed, any other text is a ValueError.
to_float(x) ==
    IF x.t \in {"fin", "nan", "inf"} THEN x
    ELSE IF x.t = "numtxt" THEN Num(x.n)
    ELSE Exc

\* DecomClarityTransformer._transform_glucose
_transform_glucose(row) ==
    IF "glucose" \notin DOMAIN row THEN Exc
    ELSE IF row["glucose"] = Str("High") THEN Num(GlucoseHigh)
    ELSE IF row["glucose"] = Str("Low") THEN Num(GlucoseLow)
    ELSE to_float(row["glucose"])

\* df[name] = df.apply(f, axis=1).  On a frame without rows pandas calls f once
\* on a row of NaN to find the result's shape: when that call raises, apply
\* returns a copy of the frame and assigning it to one column raises.
assign_apply(d, name, f(_)) ==
    LET vals == [i \in 1..Len(d.rows) |-> f(d.rows[i])]
    IN IF d.rows = <<>>
       THEN (IF f([c \in Range(d.cols) |-> NaN]) = Exc THEN Raise
             ELSE Ok(SetColumn(d, name, vals)))
       ELSE IF \E i \in 1..Len(d.rows) : vals[i] = Exc THEN Raise
       ELSE Ok(SetColumn(d, name, vals))

\* df.fillna(0)
frame_fillna(d) ==
    [cols |-> d.cols,
     rows |-> [i \in 1..Len(d.rows) |-> [c \in Range(d.cols) |-> fillna(d.rows[i][c])]]]

\* The final column list of _additional_transform.
canonical_columns ==
    <<"datetime", "glucose", "carbs", "bolus", "basal", "hour", "hour_group">>

\* DecomClarityTransformer._additional_transform
_additional_transform(d) ==
    LET a == assign_apply(d, "bolus", _populate_bolus_insulin)
        b == assign_apply(a.df, "basal", _populate_basal_insulin)
        c == assign_apply(b.df, "glucose", _transform_glucose)
        e == frame_fillna(c.df)
    IN IF ~a.ok \/ ~b.ok \/ ~c.ok THEN Raise
       ELSE IF ~(Range(canonical_columns) \subseteq Range(e.cols)) THEN Raise
       ELSE Ok(Project(e, canonical_columns))

----------------------------------------------------------------------------
(* The source files the transformer is run on                              *)

MaxSrcRows == 2

\* A Clarity export's header: the declared columns and one the adapter does
\* not declare.
FullHeader ==
    <<"Index", "Timestamp (YYYY-MM-DDThh:mm:ss)", "Event Type", "Event Subtype",
      "Patient Info", "Glucose Value (mg/dL)", "Insulin Value (u)", "Carb Value (grams)">>

Without(seq, c) == SelectSeq(seq, LAMBDA x : x # c)

Headers ==
    {FullHeader,
     Without(FullHeader, "Timestamp (YYYY-MM-DDThh:mm:ss)"),
     Without(FullHeader, "Glucose Value (mg/dL)"),
     Without(FullHeader, "Event Subtype"),
     Without(FullHeader, "Carb Value (grams)")}

\* Timestamp fields: day 0 02:10, day 1 23:50, and one with hour 25.
TsEarly == Ts(210)
TsLate == Ts(12350)
TsBad == Ts(2500)

SrcRow(ts, ty, sub, g, ins, cb) ==
    [c \in Range(FullHeader) |->
        CASE c = "Index" -> NumTxt(1)
          [] c = "Timestamp (YYYY-MM-DDThh:mm:ss)" -> ts
          [] c = "Event Type" -> ty
          [] c = "Event Subtype" -> sub
          [] c = "Patient Info" -> NaN
          [] c = "Glucose Value (mg/dL)" -> g
          [] c = "Insulin Value (u)" -> ins
          [] c = "Carb Value (grams)" -> cb]

SrcRows ==
    {SrcRow(ts, Str("EGV"), NaN, g, NaN, NaN) :
        ts \in {NaN, TsBad, TsEarly, TsLate}, g \in {NumTxt(120), Str("abc")}}
    \cup {SrcRow(TsEarly, Str("EGV"), NaN, g, NaN, NaN) :
        g \in {Str("High"), Str("Low"), NumTxt(-5), NaN}}
    \cup {SrcRow(TsEarly, Str("Insulin"), sub, NaN, ins, NaN) :
        sub \in {Str("Fast-Acting"), Str("Long-Acting")}, ins \in {NumTxt(4), NumTxt(-2)}}
    \cup {SrcRow(TsLate, Str("Carbs"), NaN, NaN, NaN, cb) : cb \in {NumTxt(40), NumTxt(-10)}}
    \cup {SrcRow(TsLate, Str("Exercise"), Str("Fast-Acting"), NaN, NumTxt(4), NaN)}

SeqsUpTo(S, n) == UNION {[1..k -> S] : k \in 0..n}

\* The file with header h and the given full rows cut down to the header.
SrcFile(h, rows) ==
    [cols |-> h,
     rows |-> [i \in 1..Len(rows) |-> [c \in Range(h) |-> rows[i][c]]]]

Files == {SrcFile(h, rows) : h \in Headers, rows \in SeqsUpTo(SrcRows, MaxSrcRows)}

----------------------------------------------------------------------------
(* FileTransformer.transform, one action per step                          *)

NoRet == [op |-> "none", arg |-> EmptyFrame, isf |-> NaN, target |-> NaN,
          val |-> NaN, tbl |-> EmptyFrame, on |-> "none", prev |-> EmptyFrame]

AnalyticsIdle == df = EmptyFrame /\ ret = NoRet
DbIdle == db = <<>> /\ last = EmptyFrame /\ raised = FALSE

InitTransform ==
    /\ hours_grp_lookup_dict = get_hour_grouping_dict
    /\ file \in Files
    /\ tdf = EmptyFrame
    /\ pc = "read"
    /\ AnalyticsIdle
    /\ DbIdle

\* One step of transform: on an exception transform ends without a table.
Step(at, r, next) ==
    /\ pc = at
    /\ pc' = IF r.ok THEN next ELSE "error"
    /\ tdf' = r.df
    /\ UNCHANGED <<hours_grp_lookup_dict, file, df, ret, db, last, raised>>

ReadIntoDataframe == Step("read", _read_into_dataframe(file), "retrieve")
RetrieveColumns == Step("retrieve", _retrieve_columns(tdf), "rename")
RenameColumns == Step("rename", _rename_columns(tdf), "datetime")
SetDatetimeDatatype == Step("datetime", _set_datetime_datatype(tdf), "hour")
AddHrAndHrgrp == Step("hour", _add_hr_and_hrgrp(tdf, hours_grp_lookup_dict), "additional")
AdditionalTransform == Step("additional", _additional_transform(tdf), "done")

NextTransform ==
    \/ ReadIntoDataframe
    \/ RetrieveColumns
    \/ RenameColumns
    \/ SetDatetimeDatatype
    \/ AddHrAndHrgrp
    \/ AdditionalTransform

SpecTransform == InitTransform /\ [][NextTransform]_vars

----------------------------------------------------------------------------
(* Claims about the transformer, checked under SpecTransform               *)

TimestampCol == "Timestamp (YYYY-MM-DDThh:mm:ss)"
GlucoseCol == "Glucose Value (mg/dL)"

\* The source rows that have a timestamp field, in file order.
KeptSrc ==
    IF TimestampCol \notin Range(file.cols) THEN <<>>
    ELSE SelectSeq(file.rows, LAMBDA r : r[TimestampCol].t # "nan")

\* A source glucose field the adapter can interpret.
GlucoseReadable(x) == x.t \in {"numtxt", "nan"} \/ x = Str("High") \/ x = Str("Low")

\* The file has every declared column and only readable glucose fields.
WellFormedButTimestamps ==
    /\ Range(columns) \subseteq Range(file.cols)
    /\ \A i \in 1..Len(file.rows) : GlucoseReadable(file.rows[i][GlucoseCol])

HourProbe == -2..30

\* C1: the hour-group lookup returns h // 3 for every hour h of 0..23 and is an
\* error for any other hour; every row transform outputs has hour in 0..23 and
\* hour_group = hour // 3 in 0..7.
C1_HourGroup ==
    /\ \A h \in HourProbe :
          hours_grp_lookup(hours_grp_lookup_dict, h) =
              IF h \in 0..23 THEN IntCell(h \div 3) ELSE Exc
    /\ pc = "done" =>
          \A i \in 1..Len(tdf.rows) :
             /\ tdf.rows[i]["hour"].n \in 0..23
             /\ tdf.rows[i]["hour_group"].n = tdf.rows[i]["hour"].n \div 3
             /\ tdf.rows[i]["hour_group"].n \in 0..7

\* A transform that returned rows of the first and of the last hour group.
C1_Witness ==
    /\ pc = "done"
    /\ \E i, j \in 1..Len(tdf.rows) :
          /\ tdf.rows[i]["hour"] = IntCell(2) /\ tdf.rows[i]["hour_group"] = IntCell(0)
          /\ tdf.rows[j]["hour"] = IntCell(23) /\ tdf.rows[j]["hour_group"] = IntCell(7)

\* C7: in a returned table the glucose of a row is 400.0 where the source says
\* "High", 40.0 where it says "Low" and the source's number where it is one; a
\* file with any other glucose text in a row that is read returns no table.
C7_GlucoseSentinels ==
    /\ pc = "done" =>
          /\ Len(tdf.rows) = Len(KeptSrc)
          /\ \A i \in 1..Len(KeptSrc) :
                LET g == KeptSrc[i][GlucoseCol]
                    out == tdf.rows[i]["glucose"]
                IN /\ GlucoseReadable(g)
                   /\ g = Str("High") => out = Num(400)
                   /\ g = Str("Low") => out = Num(40)
                   /\ g.t = "numtxt" => out = Num(g.n)
    /\ pc = "error" => tdf = EmptyFrame

\* A returned table with a "High" and a "Low" reading.
C7_Witness ==
    /\ pc = "done"
    /\ \E i, j \in 1..Len(tdf.rows) :
          /\ KeptSrc[i][GlucoseCol] = Str("High") /\ tdf.rows[i]["glucose"] = Num(400)
          /\ KeptSrc[j][GlucoseCol] = Str("Low") /\ tdf.rows[j]["glucose"] = Num(40)

\* C8: in every returned row glucose, carbs, bolus and basal are set and not
\* negative, whatever the source holds.
C8_NonNegative ==
    pc = "done" =>
       \A i \in 1..Len(tdf.rows) :
          \A c \in {"glucose", "carbs", "bolus", "basal"} :
             tdf.rows[i][c].t = "fin" /\ tdf.rows[i][c].n >= 0

\* C9 as claimed: rows with a missing or unparseable timestamp are dropped and
\* transform completes, returning one row per row with a parseable timestamp.
C9_DroppedSilently ==
    WellFormedButTimestamps =>
       /\ pc # "error"
       /\ pc = "done" =>
             Len(tdf.rows) = Len(SelectSeq(KeptSrc, LAMBDA r : parseable(r[TimestampCol])))

\* C9 amended: a returned table holds exactly one row per source row that has
\* a timestamp, in file order; a timestamp that is there and cannot be parsed
\* makes transform fail, and a missing one makes nothing fail.
C9_MissingDropped ==
    /\ pc = "done" =>
          /\ Len(tdf.rows) = Len(KeptSrc)
          /\ \A i \in 1..Len(KeptSrc) :
                /\ parseable(KeptSrc[i][TimestampCol])
                /\ tdf.rows[i]["datetime"] = to_datetime(KeptSrc[i][TimestampCol])
    /\ (WellFormedButTimestamps /\ \A i \in 1..Len(KeptSrc) : parseable(KeptSrc[i][TimestampCol]))
          => pc # "error"

\* A returned table one row shorter than its source, whose other row had no timestamp.
C9_Witness ==
    /\ pc = "done"
    /\ Len(file.rows) = 2
    /\ Len(tdf.rows) = 1
    /\ \E i \in 1..2 : file.rows[i][TimestampCol].t = "nan"

\* C11: for a file without the declared timestamp column, transform fails in
\* its first step and returns no table: it never reaches the hour derivation,
\* never holds a table after the read and never ends with one.
C11_NoTimestampColumn ==
    TimestampCol \notin Range(file.cols) =>
       /\ pc \in {"read", "error"}
       /\ pc \notin {"hour", "additional", "done"}
       /\ tdf = EmptyFrame

\* A file with rows and every declared column but the timestamp, failed.
C11_Witness ==
    /\ pc = "error"
    /\ TimestampCol \notin Range(file.cols)
    /\ Range(columns) \ {TimestampCol} \subseteq Range(file.cols)
    /\ Len(file.rows) = 2
    /\ tdf = EmptyFrame

\* The field of a source row, missing when the file has no such column.
SrcField(row, c) == IF c \in DOMAIN row THEN row[c] ELSE NaN

\* The insulin amount of a source row as a float, 0.0 when it is missing.
InsulinAmount(row) ==
    LET x == SrcField(row, "Insulin Value (u)")
    IN IF x.t = "numtxt" THEN Num(x.n) ELSE Num(0)

\* C14 as claimed: in a returned table bolus is the row's insulin amount where
\* the event subtype is fast-acting and 0 elsewhere, basal the same with
\* long-acting, whatever the event type; no row has both nonzero.
C14_SubtypeAlone ==
    pc = "done" =>
       /\ Len(tdf.rows) = Len(KeptSrc)
       /\ \A i \in 1..Len(KeptSrc) :
             LET sub == SrcField(KeptSrc[i], "Event Subtype")
             IN /\ tdf.rows[i]["bolus"] =
                      IF sub = Str("Fast-Acting") THEN InsulinAmount(KeptSrc[i]) ELSE Num(0)
                /\ tdf.rows[i]["basal"] =
                      IF sub = Str("Long-Acting") THEN InsulinAmount(KeptSrc[i]) ELSE Num(0)
                /\ ~(tdf.rows[i]["bolus"] # Num(0) /\ tdf.rows[i]["basal"] # Num(0))

\* C14 amended: in a returned table bolus is the row's insulin amount where
\* the event type is Insulin and the event subtype fast-acting and 0 elsewhere,
\* basal the same with long-acting; no row has both nonzero.
C14_InsulinEventsOnly ==
    pc = "done" =>
       /\ Len(tdf.rows) = Len(KeptSrc)
       /\ \A i \in 1..Len(KeptSrc) :
             LET ty == SrcField(KeptSrc[i], "Event Type")
                 sub == SrcField(KeptSrc[i], "Event Subtype")
             IN /\ tdf.rows[i]["bolus"] =
                      IF ty = Str("Insulin") /\ sub = Str("Fast-Acting")
                      THEN InsulinAmount(KeptSrc[i]) ELSE Num(0)
                /\ tdf.rows[i]["basal"] =
                      IF ty = Str("Insulin") /\ sub = Str("Long-Acting")
                      THEN InsulinAmount(KeptSrc[i]) ELSE Num(0)
                /\ ~(tdf.rows[i]["bolus"] # Num(0) /\ tdf.rows[i]["basal"] # Num(0))

\* A returned table with a fast-acting insulin row, bolus 4, and a fast-acting
\* row of another event type that carries an insulin amount, bolus 0.
C14_Witness ==
    /\ pc = "done"
    /\ \E i, j \in 1..Len(tdf.rows) :
          /\ KeptSrc[i]["Event Type"] = Str("Insulin")
          /\ KeptSrc[i]["Event Subtype"] = Str("Fast-Acting")
          /\ tdf.rows[i]["bolus"] = Num(4) /\ tdf.rows[i]["basal"] = Num(0)
          /\ KeptSrc[j]["Event Type"] = Str("Exercise")
          /\ KeptSrc[j]["Event Subtype"] = Str("Fast-Acting")
          /\ KeptSrc[j]["Insulin Value (u)"] = NumTxt(4)
          /\ tdf.rows[j]["bolus"] = Num(0)

\* The steps follow one another in the order read, column selection, rename,
\* datetime typing, hour derivation, finishing; column selection never fails
\* and nothing runs after the end.
PipelineOrder ==
    /\ pc = "read" => pc' \in {"retrieve", "error"}
    /\ pc = "retrieve" => pc' = "rename"
    /\ pc = "rename" => pc' \in {"datetime", "error"}
    /\ pc = "datetime" => pc' \in {"hour", "error"}
    /\ pc = "hour" => pc' \in {"additional", "error"}
    /\ pc = "additional" => pc' \in {"done", "error"}
    /\ pc \in {"done", "error"} => pc' = pc

\* Right after column selection the table has exactly the declared columns
\* the file has, none of the others, and the rows that were read.
ColumnSelection ==
    pc = "rename" =>
       /\ Range(tdf.cols) = Range(columns) \cap Range(file.cols)
       /\ Len(tdf.cols) = Cardinality(Range(tdf.cols))
       /\ Len(tdf.rows) = Len(KeptSrc)

\* Every field of the file is one the adapter can interpret: a timestamp is
\* missing or parseable, a glucose field is a number, a sentinel or missing.
FieldsReadable ==
    \A i \in 1..Len(file.rows) :
       /\ TimestampCol \in Range(file.cols) =>
             (file.rows[i][TimestampCol].t = "nan" \/ parseable(file.rows[i][TimestampCol]))
       /\ GlucoseCol \in Range(file.cols) => GlucoseReadable(file.rows[i][GlucoseCol])

\* A file with the timestamp column and readable fields gets its table, with
\* the canonical columns in their order, also when it lacks another declared
\* column.
CanonicalReturned ==
    /\ pc = "done" => tdf.cols = canonical_columns
    /\ (TimestampCol \in Range(file.cols) /\ FieldsReadable) => pc # "error"

\* C15: the steps run in their fixed order; column selection keeps exactly the
\* declared columns the source has and fails for none that is absent; every
\* source with the timestamp column gets a table with the columns datetime,
\* glucose, carbs, bolus, basal, hour, hour_group, also when another declared
\* column is absent.
C15_Pipeline ==
    /\ [][PipelineOrder]_vars
    /\ [](ColumnSelection /\ CanonicalReturned)

----------------------------------------------------------------------------
(* AnalyzeDiabetesDbData, the analytics (analyze_diabetes_db_data.py)      *)
(*                                                                         *)
(* DataFrames are mutable objects: a heap is a sequence of frames and a    *)
(* reference is an index into it.  A method that returns a DataFrame       *)
(* returns [heap, ref]: the heap as the call leaves it and the reference   *)
(* to the result.                                                          *)

IsfNumerator == 1800
DefaultIsf == 0
DefaultTarget == 120
LookaheadMinutes == 150
LookaheadHalfWidth == 30
BolusHalfWidth == 15

\* df.copy() that hands back the frame itself.
copy_alias(h, r) == [heap |-> h, ref |-> r]

\* df.copy(): a new frame with the same contents.
copy(h, r) == [heap |-> Append(h, h[r]), ref |-> Len(h) + 1]

\* df[name] = values on the frame a reference names.
setitem(h, r, name, values) == [h EXCEPT ![r] = SetColumn(h[r], name, values)]

\* create_glucose_dataframe that keeps every row.
create_glucose_dataframe_all(d) == d

\* create_glucose_dataframe: df[df.glucose > 0]
create_glucose_dataframe(d) ==
    Filter(d, [i \in 1..Len(d.rows) |-> GtZero(d.rows[i]["glucose"])])

\* create_bolus_dataframe that keeps every row.
create_bolus_dataframe_all(d) == d

\* create_bolus_dataframe: df[df.bolus > 0]
create_bolus_dataframe(d) ==
    Filter(d, [i \in 1..Len(d.rows) |-> GtZero(d.rows[i]["bolus"])])

\* create_basal_dataframe: df[df.basal > 0]
create_basal_dataframe(d) ==
    Filter(d, [i \in 1..Len(d.rows) |-> GtZero(d.rows[i]["basal"])])

\* calculate_total_daily_dose with the bolus mean taken over every row.
calculate_total_daily_dose_allrows(d) ==
    LET basal_avg == Mean(Column(create_basal_dataframe(d), "basal"))
        bolus_avg == Mean(Column(d, "bolus"))
    IN FAdd(basal_avg, bolus_avg)

\* calculate_total_daily_dose
calculate_total_daily_dose(d) ==
    LET basal_avg == Mean(Column(create_basal_dataframe(d), "basal"))
        bolus_avg == Mean(Column(create_bolus_dataframe(d), "bolus"))
    IN FAdd(basal_avg, bolus_avg)

\* calculate_insulin_sensitivity_factor
calculate_insulin_sensitivity_factor(d) ==
    FDiv(Num(IsfNumerator), calculate_total_daily_dose(d))

\* calculate_target_deviation
calculate_target_deviation(row, df_glucose, isf, target) ==
    IF GtZero(row["carbs"])
    THEN LET temp_dt == row["datetime"].n + LookaheadMinutes
             minutes_before_5 == temp_dt - LookaheadHalfWidth
             minutes_after_5 == temp_dt + LookaheadHalfWidth
             temp_glucose_df ==
                 Filter(df_glucose,
                        [i \in 1..Len(df_glucose.rows) |->
                            /\ df_glucose.rows[i]["datetime"].n >= minutes_before_5
                            /\ df_glucose.rows[i]["datetime"].n <= minutes_after_5])
         IN IF temp_glucose_df.rows = <<>> THEN Num(0)
            ELSE FDiv(FSub(Mean(Column(temp_glucose_df, "glucose")), target), isf)
    ELSE Num(0)

\* add_target_deviation_to_dataframe that adds the new deviation onto the
\* target_deviation a row already carries.
add_target_deviation_to_dataframe_accumulate(h, r, isf, target) ==
    With(IF EqZero(isf) THEN calculate_insulin_sensitivity_factor(h[r]) ELSE isf,
         LAMBDA isf1 :
    With(copy(h, r), LAMBDA c :
    With(c.heap[c.ref], LAMBDA df_cpy :
    With([i \in 1..Len(df_cpy.rows) |->
             LET v == calculate_target_deviation(
                          df_cpy.rows[i], create_glucose_dataframe(c.heap[r]), isf1, target)
             IN IF "target_deviation" \in DOMAIN df_cpy.rows[i]
                THEN FAdd(df_cpy.rows[i]["target_deviation"], v)
                ELSE v],
         LAMBDA values :
    [heap |-> setitem(c.heap, c.ref, "target_deviation", values), ref |-> c.ref]))))

\* add_target_deviation_to_dataframe(df, isf, target)
add_target_deviation_to_dataframe(h, r, isf, target) ==
    With(IF EqZero(isf) THEN calculate_insulin_sensitivity_factor(h[r]) ELSE isf,
         LAMBDA isf1 :
    With(copy(h, r), LAMBDA c :
    With(c.heap[c.ref], LAMBDA df_cpy :
    With([i \in 1..Len(df_cpy.rows) |->
             calculate_target_deviation(
                 df_cpy.rows[i], create_glucose_dataframe(c.heap[r]), isf1, target)],
         LAMBDA values :
    [heap |-> setitem(c.heap, c.ref, "target_deviation", values), ref |-> c.ref]))))

\* calculate_bolus_ratio
calculate_bolus_ratio(row, df_bolus) ==
    IF GtZero(row["carbs"])
    THEN LET temp_carbs == row["carbs"]
             temp_dt == row["datetime"].n
             minutes_before_15 == temp_dt - BolusHalfWidth
             minutes_after_15 == temp_dt + BolusHalfWidth
             temp_bolus_df ==
                 Filter(df_bolus,
                        [i \in 1..Len(df_bolus.rows) |->
                            /\ df_bolus.rows[i]["datetime"].n >= minutes_before_15
                            /\ df_bolus.rows[i]["datetime"].n <= minutes_after_15])
         IN IF temp_bolus_df.rows = <<>> THEN Num(0)
            ELSE FDiv(temp_carbs, Mean(Column(temp_bolus_df, "bolus")))
    ELSE Num(0)

\* add_bolus_ratio_to_dataframe(df)
add_bolus_ratio_to_dataframe(h, r) ==
    With(copy(h, r), LAMBDA c :
    With(c.heap[c.ref], LAMBDA df_cpy :
    With([i \in 1..Len(df_cpy.rows) |->
             calculate_bolus_ratio(df_cpy.rows[i], create_bolus_dataframe(c.heap[r]))],
         LAMBDA values :
    [heap |-> setitem(c.heap, c.ref, "bolus_ratio", values), ref |-> c.ref])))

\* The new_ratio column before fillna.
new_ratio(d) ==
    [i \in 1..Len(d.rows) |->
        FDiv(d.rows[i]["carbs"],
             FAdd(FDiv(d.rows[i]["carbs"], d.rows[i]["bolus_ratio"]),
                  d.rows[i]["target_deviation"]))]

\* recalculate_bolus_ratio(df, isf, target)
recalculate_bolus_ratio(h, r, isf, target) ==
    With(copy(h, r), LAMBDA c0 :
    With(add_bolus_ratio_to_dataframe(c0.heap, c0.ref), LAMBDA c1 :
    With(add_target_deviation_to_dataframe(c1.heap, c1.ref, isf, target), LAMBDA c2 :
    With(setitem(c2.heap, c2.ref, "new_ratio", new_ratio(c2.heap[c2.ref])), LAMBDA h3 :
    With([i \in 1..Len(h3[c2.ref].rows) |-> fillna(h3[c2.ref].rows[i]["new_ratio"])],
         LAMBDA filled :
    [heap |-> setitem(h3, c2.ref, "new_ratio", filled), ref |-> c2.ref])))))

----------------------------------------------------------------------------
(* The tables the analytics are run on                                     *)

MaxRows == 3

\* The columns of the SELECT in AnalyzeDiabetesDbData.sql, in its order.
sql_columns ==
    <<"hour", "hour_group", "datetime", "glucose", "carbs", "bolus", "basal">>

Record(t, g, cb, bo, ba) ==
    [c \in Range(sql_columns) |->
        CASE c = "hour" -> IntCell(dt_hour(Dt(t)))
          [] c = "hour_group" -> IntCell(dt_hour(Dt(t)) \div 3)
          [] c = "datetime" -> Dt(t)
          [] c = "glucose" -> Num(g)
          [] c = "carbs" -> Num(cb)
          [] c = "bolus" -> Num(bo)
          [] c = "basal" -> Num(ba)]

\* Carb events at 20 and 25 minutes; bolus doses exactly 15 minutes and more
\* than 15 minutes before and after them, and 10 and 20 minutes after the
\* first; glucose readings exactly 2 h and 3 h after one carb event and just
\* outside that window of the other; a basal dose, without glucose, inside
\* both windows.
Records ==
    {Record(20, 0, 40, 0, 0), Record(25, 0, 40, 0, 0),
     Record(5, 0, 0, 6, 0), Record(30, 0, 0, 4, 0), Record(40, 0, 0, 4, 0),
     Record(140, 80, 0, 0, 0), Record(205, 160, 0, 0, 0),
     Record(150, 0, 0, 0, 1)}

Tables == {[cols |-> sql_columns, rows |-> rows] : rows \in SeqsUpTo(Records, MaxRows)}

\* An argument the caller leaves out.
Omitted == [t |-> "omitted", s |-> "", n |-> 0, d |-> 1]

\* The parameter's value: the default for an argument left out.
param(arg, default) == IF arg = Omitted THEN default ELSE arg

\* The isf and target arguments the calls are made with.
IsfArgs == {Omitted, Num(10)}
TargetArgs == {Omitted, Num(100)}

TransformIdle ==
    /\ hours_grp_lookup_dict = get_hour_grouping_dict
    /\ file = EmptyFrame /\ tdf = EmptyFrame /\ pc = "idle"

InitAnalytics ==
    /\ df \in Tables
    /\ ret = NoRet
    /\ TransformIdle
    /\ DbIdle

\* A call that returns a float and only reads the frame.
ScalarCall(name, v) ==
    /\ ret' = [NoRet EXCEPT !.op = name, !.arg = df, !.val = v]
    /\ UNCHANGED <<df, hours_grp_lookup_dict, file, tdf, pc, db, last, raised>>

\* A call on the caller's frame, the heap's only frame, that returns a frame:
\* the caller's frame is left as the call leaves it.
FrameCall(name, isf, target, call) ==
    \E r \in {call} :
    /\ df' = r.heap[1]
    /\ ret' = [NoRet EXCEPT !.op = name, !.arg = df, !.isf = isf, !.target = target,
                            !.tbl = r.heap[r.ref]]
    /\ UNCHANGED <<hours_grp_lookup_dict, file, tdf, pc, db, last, raised>>

CalculateTotalDailyDose ==
    ScalarCall("calculate_total_daily_dose", calculate_total_daily_dose(df))

CalculateInsulinSensitivityFactor ==
    ScalarCall("calculate_insulin_sensitivity_factor",
               calculate_insulin_sensitivity_factor(df))

AddTargetDeviationToDataframe ==
    \E isf \in IsfArgs, target \in TargetArgs :
       FrameCall("add_target_deviation_to_dataframe", isf, target,
                 add_target_deviation_to_dataframe(
                     <<df>>, 1, param(isf, Num(DefaultIsf)), param(target, Num(DefaultTarget))))

AddBolusRatioToDataframe ==
    FrameCall("add_bolus_ratio_to_dataframe", NaN, NaN,
              add_bolus_ratio_to_dataframe(<<df>>, 1))

RecalculateBolusRatio ==
    \E isf \in IsfArgs, target \in TargetArgs :
       FrameCall("recalculate_bolus_ratio", isf, target,
                 recalculate_bolus_ratio(
                     <<df>>, 1, param(isf, Num(DefaultIsf)), param(target, Num(DefaultTarget))))

\* A second add_target_deviation_to_dataframe with the arguments of the first,
\* an explicit isf among them, on the caller's table again or on the table the
\* first call returned; the heap holds the caller's table and the first result.
AddTargetDeviationAgain ==
    /\ ret.op = "add_target_deviation_to_dataframe"
    /\ ret.isf # Omitted
    /\ \E on \in {"base", "enriched"} :
       \E r \in {add_target_deviation_to_dataframe(
                     <<df, ret.tbl>>, IF on = "base" THEN 1 ELSE 2,
                     param(ret.isf, Num(DefaultIsf)), param(ret.target, Num(DefaultTarget)))} :
          /\ df' = r.heap[1]
          /\ ret' = [ret EXCEPT !.op = "add_target_deviation_to_dataframe_again",
                                !.on = on, !.prev = r.heap[2], !.tbl = r.heap[r.ref]]
    /\ UNCHANGED <<hours_grp_lookup_dict, file, tdf, pc, db, last, raised>>

NextAnalytics ==
    \/ CalculateTotalDailyDose
    \/ CalculateInsulinSensitivityFactor
    \/ AddTargetDeviationToDataframe
    \/ AddBolusRatioToDataframe
    \/ RecalculateBolusRatio
    \/ AddTargetDeviationAgain

SpecAnalytics == InitAnalytics /\ [][NextAnalytics]_vars

----------------------------------------------------------------------------
(* Claims about the analytics, checked under SpecAnalytics                 *)

RECURSIVE SumOver(_, _, _)
\* The sum of column c over the rows of d with index in S.
SumOver(d, c, S) ==
    IF S = {} THEN Num(0)
    ELSE LET i == CHOOSE x \in S : TRUE
         IN FAdd(d.rows[i][c], SumOver(d, c, S \ {i}))

\* The mean of column c over the rows of d with index in S, S not empty.
MeanOver(d, c, S) == FDiv(SumOver(d, c, S), Num(Cardinality(S)))

Minutes(d, i) == d.rows[i]["datetime"].n

\* The rows with a bolus within 15 minutes of row i, both ends included.
BolusNear(d, i) ==
    {j \in 1..Len(d.rows) :
        /\ d.rows[j]["bolus"].n > 0
        /\ Abs(Minutes(d, j) - Minutes(d, i)) <= 15}

\* The rows with a glucose reading 2 h to 3 h after row i, both ends included.
GlucoseAfter(d, i) ==
    {j \in 1..Len(d.rows) :
        /\ d.rows[j]["glucose"].n > 0
        /\ Minutes(d, j) - Minutes(d, i) \in 120..180}

\* The table of the bolus-ratio scenario: carbs 40 at t0, bolus 4 at t0 + 10
\* and at t0 + 20.
ScenarioTable ==
    [cols |-> sql_columns,
     rows |-> <<Record(20, 0, 40, 0, 0), Record(30, 0, 0, 4, 0), Record(40, 0, 0, 4, 0)>>]

\* C2: the bolus ratio of a row is 0.0 when its carbs are 0, else 0.0 when no
\* row with bolus > 0 lies within 15 minutes of it (ends included), else its
\* carbs over the mean bolus of exactly those rows; it is 10.0 for the carb
\* row of the scenario.
C2_BolusRatio ==
    ret.op = "add_bolus_ratio_to_dataframe" =>
       /\ \A i \in 1..Len(ret.arg.rows) :
             ret.tbl.rows[i]["bolus_ratio"] =
                IF ret.arg.rows[i]["carbs"] = Num(0) THEN Num(0)
                ELSE IF BolusNear(ret.arg, i) = {} THEN Num(0)
                ELSE FDiv(ret.arg.rows[i]["carbs"],
                          MeanOver(ret.arg, "bolus", BolusNear(ret.arg, i)))
       /\ ret.arg = ScenarioTable => ret.tbl.rows[1]["bolus_ratio"] = Num(10)

\* The scenario's table with its bolus ratio computed.
C2_Witness ==
    /\ ret.op = "add_bolus_ratio_to_dataframe"
    /\ ret.arg = ScenarioTable
    /\ ret.tbl.rows[1]["bolus_ratio"] = Num(10)

\* C3: with a nonzero isf, the target deviation of a row is 0.0 when its carbs
\* are 0, else 0.0 when no row with glucose > 0 lies 2 h to 3 h after it (ends
\* included), else (the mean glucose of exactly those rows - target) / isf,
\* the target being 120 when it is left out.
C3_TargetDeviation ==
    (ret.op = "add_target_deviation_to_dataframe" /\ ret.isf # Omitted /\ ret.isf # Num(0)) =>
       \A i \in 1..Len(ret.arg.rows) :
          ret.tbl.rows[i]["target_deviation"] =
             IF ret.arg.rows[i]["carbs"] = Num(0) THEN Num(0)
             ELSE IF GlucoseAfter(ret.arg, i) = {} THEN Num(0)
             ELSE FDiv(FSub(MeanOver(ret.arg, "glucose", GlucoseAfter(ret.arg, i)),
                            IF ret.target = Omitted THEN Num(120) ELSE ret.target),
                       ret.isf)

\* A carb row with a reading of 160 at the far end of its window and a row
\* without glucose inside the window, the target left out: (160 - 120) / 10.
C3_Witness ==
    /\ ret.op = "add_target_deviation_to_dataframe"
    /\ ret.isf = Num(10) /\ ret.target = Omitted
    /\ \E i \in 1..Len(ret.arg.rows) :
          /\ GlucoseAfter(ret.arg, i) # {}
          /\ \E j \in 1..Len(ret.arg.rows) :
                /\ j \notin GlucoseAfter(ret.arg, i)
                /\ Minutes(ret.arg, j) - Minutes(ret.arg, i) \in 120..180
          /\ ret.tbl.rows[i]["target_deviation"] = Num(4)

HasBasal(d) == \E i \in 1..Len(d.rows) : d.rows[i]["basal"].n > 0
HasBolus(d) == \E i \in 1..Len(d.rows) : d.rows[i]["bolus"].n > 0

\* The means over the rows where the field is not zero.
BasalMean(d) == MeanOver(d, "basal", {i \in 1..Len(d.rows) : d.rows[i]["basal"] # Num(0)})
BolusMean(d) == MeanOver(d, "bolus", {i \in 1..Len(d.rows) : d.rows[i]["bolus"] # Num(0)})

\* The total daily dose as the claim states it.
ClaimedTdd(d) == FAdd(BasalMean(d), BolusMean(d))

C5_NewRatio ==
    ret.op = "recalculate_bolus_ratio" =>
       \A i \in 1..Len(ret.tbl.rows) :
          LET carbs == ret.tbl.rows[i]["carbs"]
              br == ret.tbl.rows[i]["bolus_ratio"]
              td == ret.tbl.rows[i]["target_deviation"]
              new == ret.tbl.rows[i]["new_ratio"]
          IN (IsFin(br) /\ IsFin(td)) =>
                /\ IsFin(new)
                /\ new = IF br = Num(0) THEN Num(0)
                         ELSE IF FAdd(FDiv(carbs, br), td) = Num(0) THEN Num(0)
                         ELSE FDiv(carbs, FAdd(FDiv(carbs, br), td))

\* The derived columns each enriching call adds.
Derived(op) ==
    CASE op = "add_bolus_ratio_to_dataframe" -> <<"bolus_ratio">>
      [] op = "add_target_deviation_to_dataframe" -> <<"target_deviation">>
      [] op = "add_target_deviation_to_dataframe_again" -> <<"target_deviation">>
      [] op = "recalculate_bolus_ratio" -> <<"bolus_ratio", "target_deviation", "new_ratio">>
      [] OTHER -> <<>>

\* C6: a call leaves the caller's table as it was given; an enriching call
\* returns the same rows in the same order with the original columns unchanged
\* and the derived columns added.
C6_InputUnchanged ==
    ret.op # "none" =>
       /\ df = ret.arg
       /\ ret.op \notin {"calculate_total_daily_dose", "calculate_insulin_sensitivity_factor"} =>
             /\ ret.tbl.cols = ret.arg.cols \o Derived(ret.op)
             /\ Len(ret.tbl.rows) = Len(ret.arg.rows)
             /\ \A i \in 1..Len(ret.arg.rows) :
                   \A c \in Range(ret.arg.cols) : ret.tbl.rows[i][c] = ret.arg.rows[i][c]

\* A table of three rows, not all alike, after recalculate_bolus_ratio.
C6_Witness ==
    /\ ret.op = "recalculate_bolus_ratio"
    /\ Len(df.rows) = 3
    /\ df.rows[1] # df.rows[2]
    /\ ret.tbl.cols = sql_columns \o <<"bolus_ratio", "target_deviation", "new_ratio">>

\* A float, undefined and infinite values included, not an exception.
IsFloat(x) == x.t \in {"fin", "nan", "inf"}

\* The returned table has one float in column c for every row of the input.
OnePerRow(c) ==
    /\ Len(ret.tbl.rows) = Len(ret.arg.rows)
    /\ \A i \in 1..Len(ret.arg.rows) :
          c \in DOMAIN ret.tbl.rows[i] /\ IsFloat(ret.tbl.rows[i][c])

\* C12: on a table without a row with basal > 0 or without a row with
\* bolus > 0, the total daily dose and the insulin sensitivity factor come back
\* as NaN, and the three enriching calls (the target deviation with isf left
\* out) return a table with one derived value per input row.
C12_InsufficientData ==
    (ret.op # "none" /\ (~HasBasal(ret.arg) \/ ~HasBolus(ret.arg))) =>
       /\ ret.op \in {"calculate_total_daily_dose", "calculate_insulin_sensitivity_factor"}
             => IsNaN(ret.val)
       /\ (ret.op = "add_target_deviation_to_dataframe" /\ ret.isf = Omitted)
             => OnePerRow("target_deviation")
       /\ ret.op = "add_bolus_ratio_to_dataframe" => OnePerRow("bolus_ratio")
       /\ ret.op = "recalculate_bolus_ratio"
             => OnePerRow("bolus_ratio") /\ OnePerRow("target_deviation") /\ OnePerRow("new_ratio")

\* A table with carbs, a later reading and a basal dose but no bolus, enriched
\* with isf left out: the factor is NaN and so is the carb row's deviation.
C12_Witness ==
    /\ ret.op = "add_target_deviation_to_dataframe"
    /\ ret.isf = Omitted
    /\ HasBasal(ret.arg) /\ ~HasBolus(ret.arg)
    /\ IsNaN(calculate_insulin_sensitivity_factor(ret.arg))
    /\ \E i \in 1..Len(ret.arg.rows) :
          GlucoseAfter(ret.arg, i) # {} /\ IsNaN(ret.tbl.rows[i]["target_deviation"])

\* C13: a second add_target_deviation_to_dataframe with the same explicit
\* nonzero isf and the same target, on the same base table or on the table the
\* first call returned (which carries a target_deviation column), gives every
\* row the target_deviation the first call gave it.
C13_Repeatable ==
    (ret.op = "add_target_deviation_to_dataframe_again"
        /\ ret.isf # Omitted /\ ret.isf # Num(0)) =>
       /\ Len(ret.tbl.rows) = Len(ret.prev.rows)
       /\ Len(ret.tbl.rows) = Len(ret.arg.rows)
       /\ \A i \in 1..Len(ret.prev.rows) :
             ret.tbl.rows[i]["target_deviation"] = ret.prev.rows[i]["target_deviation"]

\* The enrichment applied again, with isf 10, to its own result, in which a
\* carb row has the deviation (160 - 120) / 10.
C13_Witness ==
    /\ ret.op = "add_target_deviation_to_dataframe_again"
    /\ ret.on = "enriched"
    /\ ret.isf = Num(10) /\ ret.target = Omitted
    /\ "target_deviation" \in Range(ret.prev.cols)
    /\ \E i \in 1..Len(ret.prev.rows) :
          /\ ret.prev.rows[i]["target_deviation"] = Num(4)
          /\ ret.tbl.rows[i]["target_deviation"] = Num(4)

----------------------------------------------------------------------------
(* AnalyzeDiabetesDbData.insert_records and the stored table               *)

MaxInsertRows == 2

\* The stored table's primary key.
PrimaryKey == {"datetime"}

\* Whether a stored row has the row's primary key.
conflicts(stored, row) ==
    \E i \in 1..Len(stored) : \A k \in PrimaryKey : stored[i][k] = row[k]

\* conn.execute of one INSERT, with or without ON CONFLICT DO NOTHING: a row
\* whose key is stored is skipped with the clause and an error without it.
execute_insert(stored, row, do_nothing) ==
    IF conflicts(stored, row)
    THEN [rows |-> stored, raised |-> ~do_nothing]
    ELSE [rows |-> Append(stored, row), raised |-> FALSE]

RECURSIVE insert_each(_, _, _)
\* The loop over the rows' statements; an exception ends it.
insert_each(stored, rows, do_nothing) ==
    IF rows = <<>> THEN [rows |-> stored, raised |-> FALSE]
    ELSE With(execute_insert(stored, Head(rows), do_nothing), LAMBDA r :
         IF r.raised THEN r ELSE insert_each(r.rows, Tail(rows), do_nothing))

\* The custom insert with plain INSERT statements.
_custom_insert_records_plain(stored, rows) == insert_each(stored, rows, FALSE)

\* _custom_insert_records: one "INSERT ... ON CONFLICT DO NOTHING" per row.
_custom_insert_records(stored, rows) == insert_each(stored, rows, TRUE)

\* insert_records: df.to_sql(if_exists="append", index=False, method=...)
insert_records(stored, d) == _custom_insert_records(stored, d.rows)

\* Readings at three timestamps, two glucose values each.
DbRecords == {Record(t, g, 0, 0, 0) : t \in {0, 5, 10}, g \in {100, 120}}

InsertTables ==
    {[cols |-> canonical_columns, rows |-> rows] :
        rows \in SeqsUpTo(DbRecords, MaxInsertRows)}

InitDb ==
    /\ db = <<>>
    /\ last = EmptyFrame
    /\ raised = FALSE
    /\ TransformIdle
    /\ AnalyticsIdle

InsertRecords ==
    \E t \in InsertTables :
       \E r \in {insert_records(db, t)} :
          /\ db' = r.rows
          /\ raised' = r.raised
          /\ last' = t
          /\ UNCHANGED <<hours_grp_lookup_dict, file, tdf, pc, df, ret>>

NextDb == InsertRecords

SpecDb == InitDb /\ [][NextDb]_vars

\* C10: the stored table holds at most one row per timestamp; inserting never
\* raises; inserting a row whose timestamp is stored leaves the stored rows as
\* they are; inserting the table just inserted again changes nothing.
C10_IdempotentAppend ==
    /\ \A i, j \in 1..Len(db) : db[i]["datetime"] = db[j]["datetime"] => i = j
    /\ raised = FALSE
    /\ \A r \in DbRecords :
          (\E i \in 1..Len(db) : db[i]["datetime"] = r["datetime"]) =>
             insert_records(db, [cols |-> canonical_columns, rows |-> <<r>>])
                = [rows |-> db, raised |-> FALSE]
    /\ insert_records(db, last) = [rows |-> db, raised |-> FALSE]

\* An inserted row was skipped: its timestamp was stored with another glucose.
C10_Witness ==
    /\ Len(last.rows) = 2
    /\ \E i \in 1..Len(last.rows) :
          /\ \A j \in 1..Len(db) : db[j] # last.rows[i]
          /\ \E j \in 1..Len(db) : db[j]["datetime"] = last.rows[i]["datetime"]
    /\ Len(db) = 3

====
